---- MODULE Spec2Model ----
(***************************************************************************)
(* Booking.com reconciliation page of the guest-house management app:      *)
(* src/app/(dashboard)/bookingcom-check/page.tsx.                          *)
(*                                                                         *)
(* Strings that the code inspects character by character (references) are  *)
(* sequences of one-character strings.  An optional JavaScript value is a  *)
(* sequence of length 0 (undefined / null) or 1 (the value).  Amounts are  *)
(* integers counted in hundredths of the currency unit, so the literal     *)
(* 0.01 of the code is 1.                                                  *)
(***************************************************************************)
EXTENDS Integers, Sequences, FiniteSets, TLC

VARIABLES response, parsed, data, csvRows, rows, grouped, enabled,
          store, nextId, reply, reqs

\* the state of the reconciliation page
pageVars == <<response, parsed, data, csvRows, rows, grouped, enabled>>

\* the bookings collection, the last answer of the API and the requests that
\* are being served
apiVars == <<store, nextId, reply, reqs>>

vars == <<response, parsed, data, csvRows, rows, grouped, enabled,
          store, nextId, reply, reqs>>

(***************************************************************************)
(* Bounds of the model.                                                    *)
(***************************************************************************)
\* most stored records one response of /api/by-checkout-range carries
MaxDb == 2
\* most data rows of one uploaded ledger file
MaxCsv == 2

(***************************************************************************)
(* JavaScript values.                                                      *)
(***************************************************************************)
Undefined == <<>>
Some(x) == <<x>>
IsDefined(o) == o # <<>>

\* a JavaScript number that may be NaN, or no number at all (undefined)
Num(n) == [t |-> "number", v |-> n]
NaN == [t |-> "NaN", v |-> 0]
NoNum == [t |-> "undefined", v |-> 0]

\* x || 0 on such a value: undefined, NaN and 0 are falsy
OrZero(x) == IF x.t = "number" THEN x.v ELSE 0

\* Math.abs
Abs(n) == IF n < 0 THEN 0 - n ELSE n

\* the literal 0.01 of the amount comparison, in hundredths
Tol == 1

\* String.prototype.trim on a sequence of characters
RECURSIVE TrimStart(_)
TrimStart(s) ==
  IF s # <<>> /\ Head(s) = " " THEN TrimStart(Tail(s)) ELSE s

RECURSIVE TrimEnd(_)
TrimEnd(s) ==
  IF s # <<>> /\ s[Len(s)] = " " THEN TrimEnd(SubSeq(s, 1, Len(s) - 1)) ELSE s

Trim(s) == TrimEnd(TrimStart(s))

\* String.prototype.includes: t occurs in s as a contiguous substring
Includes(s, t) ==
  \E i \in 1..(Len(s) - Len(t) + 1) :
     \A k \in 1..Len(t) : s[i + k - 1] = t[k]

\* Number(cell) for a CSV cell: undefined -> NaN, "" -> 0, decimal digits ->
\* their value, anything else -> NaN
Digits == {"0", "1", "2"}
DigitVal(c) == IF c = "0" THEN 0 ELSE IF c = "1" THEN 1 ELSE 2

RECURSIVE DigitsValue(_)
DigitsValue(s) ==
  IF s = <<>> THEN 0
  ELSE 10 * DigitsValue(SubSeq(s, 1, Len(s) - 1)) + DigitVal(s[Len(s)])

NumberOf(cell) ==
  IF ~IsDefined(cell) THEN NaN
  ELSE LET s == Trim(cell[1])
       IN IF \A k \in 1..Len(s) : s[k] \in Digits
          THEN Num(DigitsValue(s))
          ELSE NaN

(***************************************************************************)
(* Inputs: the stored bookings the server can answer with, and the rows a  *)
(* ledger file can parse to.                                               *)
(***************************************************************************)
\* Booking (page.tsx 17-25), as populated by /api/by-checkout-range.  The
\* populated property is the object the page reads: its name.
Booking(id, ref, prop, amt, exp, plat) ==
  [_id |-> id, guestName |-> "guest", reservationId |-> ref,
   propertyId |-> prop, amount |-> amt, expectedPayment |-> exp,
   platform |-> plat]

Property(n) == Some([name |-> n])

\* The stored bookings of the window, in the order of their check-out dates.
\* References are distinct, as the unique index of the schema keeps them.
Stored ==
  << Booking("b1", Some(<<"a">>), Property("P1"), 100, Undefined, "Booking.com"),
     Booking("b2", Some(<<"a", "b">>), Property("P1"), 100, Some(0), "Booking.com"),
     Booking("b3", Some(<<"b", "a">>), Property("P2"), 120, Some(100), "Booking.com"),
     Booking("b4", Undefined, Property("P1"), 100, Undefined, "Booking.com"),
     Booking("b5", Some(<<"a", "a">>), Undefined, 101, Undefined, "Booking.com"),
     Booking("b6", Some(<<"b">>), Property("P2"), 100, Undefined, "Agoda") >>

\* the sub-sequence of s at the positions in idx, in order
RECURSIVE Pick(_, _, _)
Pick(s, idx, i) ==
  IF i > Len(s) THEN <<>>
  ELSE IF i \in idx THEN <<s[i]>> \o Pick(s, idx, i + 1)
       ELSE Pick(s, idx, i + 1)

\* what the server can answer: any at most MaxDb of the stored bookings
Responses ==
  { Pick(Stored, idx, 1) :
      idx \in { x \in SUBSET (1..Len(Stored)) : Cardinality(x) <= MaxDb } }

\* one parsed row of the file: the cells of the four columns the handler
\* reads, each undefined when the row lacks the column
ParsedRow(ref, net) ==
  [reference |-> ref, guestName |-> Undefined, guestsName |-> Some("guest"),
   net |-> net]

\* reference cells that match stored references, and net cells: two amounts
\* and one that is no number
RefCells == { Some(<<"a">>), Some(<<" ", "b">>) }
NetCells == { Some(<<"1", "0", "0">>), Some(<<"1", "0", "2">>), Some(<<"x">>) }

\* besides: a blank reference, a reference no stored record contains, a row
\* without the reference column and a row with an empty reference
ParsedRows ==
  { ParsedRow(r, n) : r \in RefCells, n \in NetCells }
    \cup { ParsedRow(Some(<<" ">>), Some(<<"1", "0", "0">>)),
           ParsedRow(Some(<<"b", "b">>), Some(<<"1", "0", "0">>)),
           ParsedRow(Undefined, Some(<<"1", "0", "0">>)),
           ParsedRow(Some(<<>>), Some(<<"1", "0", "0">>)) }

RECURSIVE SeqsUpTo(_, _)
SeqsUpTo(S, n) ==
  IF n = 0 THEN { <<>> }
  ELSE LET shorter == SeqsUpTo(S, n - 1)
       IN shorter \cup { Append(s, x) : s \in shorter, x \in S }

Files == SeqsUpTo(ParsedRows, MaxCsv)

(***************************************************************************)
(* useQuery: the data of the query, [] until the fetch has resolved.       *)
(***************************************************************************)
AllBookings(d) == IF IsDefined(d) THEN d[1] ELSE <<>>

\* dbBookings: only the Booking.com records
DbBookings(all) == SelectSeq(all, LAMBDA b : b.platform = "Booking.com")

(***************************************************************************)
(* handleCsvUpload, the complete callback: one CsvRow per parsed row whose *)
(* reference cell is truthy.                                               *)
(***************************************************************************)
\* !cell : undefined and "" are falsy
Falsy(cell) == ~IsDefined(cell) \/ cell[1] = <<>>

\* a || b || "" over the two guest columns (guest names are not inspected
\* by character; "" is the empty name)
GuestOf(r) ==
  IF IsDefined(r.guestName) /\ r.guestName[1] # "" THEN r.guestName[1]
  ELSE IF IsDefined(r.guestsName) /\ r.guestsName[1] # "" THEN r.guestsName[1]
       ELSE ""

CsvRow(r) ==
  [reference |-> Trim(r.reference[1]), guest |-> GuestOf(r),
   net |-> NumberOf(r.net)]

KeepRow(r) == ~Falsy(r.reference)

RECURSIVE CsvRowsFrom(_, _, _)
CsvRowsFrom(d, i, acc) ==
  IF i > Len(d) THEN acc
  ELSE IF KeepRow(d[i]) THEN CsvRowsFrom(d, i + 1, Append(acc, CsvRow(d[i])))
       ELSE CsvRowsFrom(d, i + 1, acc)

(***************************************************************************)
(* The reconciliation (rows).                                              *)
(***************************************************************************)
\* Matches with === in place of includes
MatchesExactly(b, ref) ==
  IsDefined(b.reservationId) /\ b.reservationId[1] = ref

\* b.reservationId?.includes(csv.reference)
Matches(b, ref) ==
  IsDefined(b.reservationId) /\ Includes(b.reservationId[1], ref)

Matched(db, ref) == SelectSeq(db, LAMBDA b : Matches(b, ref))

\* b.propertyId?.name || "Unknown Property"
PropertyName(b) ==
  IF IsDefined(b.propertyId) /\ b.propertyId[1].name # ""
  THEN b.propertyId[1].name
  ELSE "Unknown Property"

\* OwnAmount with || in place of ?? : an expectedPayment of 0 is skipped
OwnAmountFalsy(b) ==
  IF IsDefined(b.expectedPayment) /\ b.expectedPayment[1] # 0
  THEN b.expectedPayment[1] ELSE b.amount

\* b.expectedPayment ?? b.amount
OwnAmount(b) ==
  IF IsDefined(b.expectedPayment) THEN b.expectedPayment[1] ELSE b.amount

RECURSIVE SumOwn(_)
SumOwn(m) == IF m = <<>> THEN 0 ELSE OwnAmount(Head(m)) + SumOwn(Tail(m))

PropertiesOf(m) == { PropertyName(m[k]) : k \in 1..Len(m) }

\* AmountDiffers with >= in place of >
AmountDiffersAtTol(dbTotal, net) ==
  net.t = "number" /\ Abs(dbTotal - net.v) >= Tol

\* Math.abs(dbTotal - csv.net) > 0.01 : false when csv.net is NaN
AmountDiffers(dbTotal, net) ==
  net.t = "number" /\ Abs(dbTotal - net.v) > Tol

\* StatusOf with the duplicate test ahead of the property test
StatusOfDuplicateFirst(properties, matched, dbTotal, net) ==
  IF Len(matched) > 1 THEN "DUPLICATE_DB_REFERENCE"
  ELSE IF Cardinality(properties) > 1 THEN "MULTI_PROPERTY_REFERENCE"
  ELSE IF AmountDiffers(dbTotal, net) THEN "AMOUNT_MISMATCH"
  ELSE "OK"

\* StatusOf without the initial "OK": no status when no test applies
StatusOfNoDefault(properties, matched, dbTotal, net) ==
  IF Cardinality(properties) > 1 THEN "MULTI_PROPERTY_REFERENCE"
  ELSE IF Len(matched) > 1 THEN "DUPLICATE_DB_REFERENCE"
  ELSE IF AmountDiffers(dbTotal, net) THEN "AMOUNT_MISMATCH"
  ELSE "undefined"

StatusOf(properties, matched, dbTotal, net) ==
  IF Cardinality(properties) > 1 THEN "MULTI_PROPERTY_REFERENCE"
  ELSE IF Len(matched) > 1 THEN "DUPLICATE_DB_REFERENCE"
  ELSE IF AmountDiffers(dbTotal, net) THEN "AMOUNT_MISMATCH"
  ELSE "OK"

\* the two sentinel labels (the second carries a warning sign in the source)
UnmatchedLabel == "Unmatched CSV"
CrossPropertyLabel == "Cross-Property Issue"

\* RowProperty that always takes a property of the set
RowPropertyAny(properties) == CHOOSE p \in properties : TRUE

RowProperty(properties) ==
  IF Cardinality(properties) = 1
  THEN CHOOSE p \in properties : TRUE
  ELSE CrossPropertyLabel

MissingInDbRow(csv) ==
  [property |-> UnmatchedLabel, reference |-> Some(csv.reference),
   csvGuest |-> Some(csv.guest), csvNet |-> csv.net, dbGuests |-> <<>>,
   dbRecords |-> Undefined, dbTotal |-> NoNum, dbCount |-> 0,
   status |-> "MISSING_IN_DB"]

MatchedRow(csv, matched) ==
  LET properties == PropertiesOf(matched)
      dbTotal == SumOwn(matched)
  IN [property |-> RowProperty(properties), reference |-> Some(csv.reference),
      csvGuest |-> Some(csv.guest), csvNet |-> csv.net,
      dbGuests |-> [k \in 1..Len(matched) |-> matched[k].guestName],
      dbRecords |-> Some(matched), dbTotal |-> Num(dbTotal),
      dbCount |-> Len(matched),
      status |-> StatusOf(properties, matched, dbTotal, csv.net)]

MissingInCsvRow(b) ==
  [property |-> PropertyName(b), reference |-> b.reservationId,
   csvGuest |-> Undefined, csvNet |-> NoNum, dbGuests |-> <<b.guestName>>,
   dbRecords |-> Some(<<b>>), dbTotal |-> Num(OwnAmount(b)), dbCount |-> 1,
   status |-> "MISSING_IN_CSV"]

\* the first loop: one row per ledger row; st = [output, usedDbIds]
RECURSIVE CsvLoop(_, _, _, _)
CsvLoop(csv, db, i, st) ==
  IF i > Len(csv) THEN st
  ELSE LET matched == Matched(db, csv[i].reference)
       IN IF Len(matched) = 0
          THEN CsvLoop(csv, db, i + 1,
                       [st EXCEPT !.output = Append(@, MissingInDbRow(csv[i]))])
          ELSE CsvLoop(csv, db, i + 1,
                       [output |-> Append(st.output, MatchedRow(csv[i], matched)),
                        usedDbIds |-> st.usedDbIds
                                        \cup { matched[k]._id : k \in 1..Len(matched) }])

\* the second loop: one row per stored record no ledger row has used
\* DbLoop without the usedDbIds test
RECURSIVE DbLoopIgnoringUsed(_, _, _)
DbLoopIgnoringUsed(db, i, st) ==
  IF i > Len(db) THEN st
  ELSE DbLoopIgnoringUsed(db, i + 1,
                          [st EXCEPT !.output = Append(@, MissingInCsvRow(db[i]))])

RECURSIVE DbLoop(_, _, _)
DbLoop(db, i, st) ==
  IF i > Len(db) THEN st
  ELSE IF db[i]._id \notin st.usedDbIds
       THEN DbLoop(db, i + 1,
                   [st EXCEPT !.output = Append(@, MissingInCsvRow(db[i]))])
       ELSE DbLoop(db, i + 1, st)

Reconcile(csv, db) ==
  DbLoop(db, 1, CsvLoop(csv, db, 1, [output |-> <<>>, usedDbIds |-> {}])).output

(***************************************************************************)
(* The aggregation (grouped): a map from property label to the rows of the *)
(* group and its three totals.                                             *)
(***************************************************************************)
NoGroups == [l \in {} |-> 0]

NewGroup == [rows |-> <<>>, safeTotal |-> 0, csvTotal |-> 0, dbTotal |-> 0]

\* AddToGroup without the status test of safeTotal
AddToGroupAnyStatus(g, r) ==
  [rows |-> Append(g.rows, r),
   csvTotal |-> g.csvTotal + OrZero(r.csvNet),
   dbTotal |-> g.dbTotal + OrZero(r.dbTotal),
   safeTotal |-> g.safeTotal + OrZero(r.csvNet)]

AddToGroup(g, r) ==
  [rows |-> Append(g.rows, r),
   csvTotal |-> g.csvTotal + OrZero(r.csvNet),
   dbTotal |-> g.dbTotal + OrZero(r.dbTotal),
   safeTotal |-> IF r.status = "OK" THEN g.safeTotal + OrZero(r.csvNet)
                 ELSE g.safeTotal]

RECURSIVE GroupLoop(_, _, _)
GroupLoop(rs, i, map) ==
  IF i > Len(rs) THEN map
  ELSE LET r == rs[i]
           g == IF r.property \in DOMAIN map THEN map[r.property] ELSE NewGroup
       IN GroupLoop(rs, i + 1,
                    [l \in DOMAIN map \cup {r.property} |->
                       IF l = r.property THEN AddToGroup(g, r) ELSE map[l]])

Grouped(rs) == GroupLoop(rs, 1, NoGroups)

(***************************************************************************)
(* The page as a state machine.  response is what the server answers for   *)
(* the chosen window and parsed what the chosen file parses to; both are   *)
(* fixed for one pass.  rows and grouped are the memoised values of the    *)
(* render that follows each state change.                                  *)
(***************************************************************************)
Render(d, csv) ==
  LET rs == Reconcile(csv, DbBookings(AllBookings(d)))
  IN /\ rows' = rs
     /\ grouped' = Grouped(rs)

\* no request has reached the API
ApiIdle ==
  /\ store = {}
  /\ nextId = 1
  /\ reply = [op |-> "none"]
  /\ reqs = <<>>

InitPage ==
  /\ response \in Responses
  /\ parsed \in Files
  /\ data = Undefined
  /\ csvRows = <<>>
  /\ rows = <<>>
  /\ grouped = NoGroups

\* the page once the window (start and end) has been chosen
Init ==
  /\ InitPage
  /\ enabled = TRUE
  /\ ApiIdle

\* the fetch of /api/by-checkout-range resolves
FetchResolve ==
  /\ enabled
  /\ ~IsDefined(data)
  /\ data' = Some(response)
  /\ Render(data', csvRows)
  /\ UNCHANGED <<response, parsed, csvRows, enabled>>
  /\ UNCHANGED apiVars

\* the file has been parsed and the complete callback runs
HandleCsvUpload ==
  /\ csvRows' = CsvRowsFrom(parsed, 1, <<>>)
  /\ Render(data, csvRows')
  /\ UNCHANGED <<response, parsed, data, enabled>>
  /\ UNCHANGED apiVars

Next == FetchResolve \/ HandleCsvUpload

Spec == Init /\ [][Next]_vars

(***************************************************************************)
(* One pass from the freshly opened page: no window chosen, the query      *)
(* disabled (enabled: !!start && !!end).                                   *)
(***************************************************************************)
InitPass ==
  /\ InitPage
  /\ enabled = FALSE
  /\ ApiIdle

\* setStart and setEnd have both been given a date: the query starts
SetDates ==
  /\ ~enabled
  /\ enabled' = TRUE
  /\ Render(data, csvRows)
  /\ UNCHANGED <<response, parsed, data, csvRows>>
  /\ UNCHANGED apiVars

NextPass == SetDates \/ FetchResolve \/ HandleCsvUpload

SpecPass == InitPass /\ [][NextPass]_vars

(***************************************************************************)
(* Vocabulary of the properties.                                           *)
(***************************************************************************)
\* the Booking.com records the matcher works on in this state
Db == DbBookings(AllBookings(data))

\* the indices of the ledger rows, which are also the indices of their rows
LedgerIdx == 1..Len(csvRows)

\* t is a contiguous piece of s
IsSubstring(t, s) ==
  \E i \in 1..(Len(s) + 1) : \E j \in (i - 1)..Len(s) : SubSeq(s, i, j) = t

\* the stored records of db that ledger reference ref designates
Designated(db, ref) ==
  { k \in 1..Len(db) :
      IsDefined(db[k].reservationId) /\ IsSubstring(ref, db[k].reservationId[1]) }

\* the stored records no ledger row designates
Unmatched ==
  { k \in 1..Len(Db) : \A i \in LedgerIdx : k \notin Designated(Db, csvRows[i].reference) }

\* the property labels of the records of db at the indices K
LabelsOf(db, K) ==
  { IF IsDefined(db[k].propertyId) /\ db[k].propertyId[1].name # ""
    THEN db[k].propertyId[1].name ELSE "Unknown Property" : k \in K }

\* a stored record's own amount: expectedPayment when present (0 included)
StoredAmount(b) ==
  IF b.expectedPayment = Undefined THEN b.amount ELSE b.expectedPayment[1]

RECURSIVE SumAmounts(_, _)
SumAmounts(db, K) ==
  IF K = {} THEN 0
  ELSE LET k == CHOOSE x \in K : TRUE
       IN StoredAmount(db[k]) + SumAmounts(db, K \ {k})

\* the number of rows of rs that satisfy P
CountRows(rs, P(_)) == Cardinality({ j \in 1..Len(rs) : P(rs[j]) })

(***************************************************************************)
(* C1: the reconciliation output has exactly one row per ledger row, in    *)
(* ledger order, plus exactly one row per stored record that no ledger row *)
(* matched: |output| = |ledger rows| + |unmatched stored records|.         *)
(***************************************************************************)
C1_OneRowPerLedgerRowAndUnmatchedRecord ==
  /\ Len(rows) = Len(csvRows) + Cardinality(Unmatched)
  /\ \A i \in LedgerIdx :
        /\ rows[i].reference = Some(csvRows[i].reference)
        /\ rows[i].csvNet = csvRows[i].net
        /\ rows[i].status # "MISSING_IN_CSV"
  /\ \A j \in (Len(csvRows) + 1)..Len(rows) : rows[j].status = "MISSING_IN_CSV"
  /\ \A k \in Unmatched :
        CountRows(rows, LAMBDA r : r.dbRecords = Some(<<Db[k]>>)) = 1

\* two ledger rows with non-empty references, one stored record matched and
\* one left unmatched: three rows
C1_Witness ==
  /\ IsDefined(data)
  /\ Len(csvRows) = 2
  /\ \A i \in LedgerIdx : csvRows[i].reference # <<>>
  /\ Len(Db) = 2
  /\ Cardinality(Unmatched) = 1
  /\ Len(rows) = 3

(***************************************************************************)
(* C2: a ledger row whose matched stored records carry two or more         *)
(* different properties is classified MULTI_PROPERTY_REFERENCE whatever    *)
(* the amounts are, also when the stored total equals the ledger net.      *)
(***************************************************************************)
C2_MultiPropertyAlways ==
  \A i \in LedgerIdx :
     Cardinality(LabelsOf(Db, Designated(Db, csvRows[i].reference))) >= 2
        => rows[i].status = "MULTI_PROPERTY_REFERENCE"

\* two properties matched and the stored total equal to the ledger net
C2_Witness ==
  \E i \in LedgerIdx :
     LET K == Designated(Db, csvRows[i].reference)
     IN /\ \E k1, k2 \in K :
             /\ IsDefined(Db[k1].propertyId) /\ IsDefined(Db[k2].propertyId)
             /\ Db[k1].propertyId # Db[k2].propertyId
        /\ csvRows[i].net = Num(SumAmounts(Db, K))
        /\ rows[i].status = "MULTI_PROPERTY_REFERENCE"

(***************************************************************************)
(* C3: a ledger row that matches exactly one stored record is classified   *)
(* OK if and only if |storedAmount - ledgerNet| <= 0.01, and               *)
(* AMOUNT_MISMATCH otherwise; storedAmount is expectedPayment when         *)
(* present (0 included), else amount.  A comparison with a net that is not *)
(* a number is false.                                                      *)
(***************************************************************************)
WithinTol(amount, net) == net.t = "number" /\ Abs(amount - net.v) <= Tol

C3_SingleMatchOkIffWithinTol ==
  \A i \in LedgerIdx :
     LET K == Designated(Db, csvRows[i].reference)
     IN Cardinality(K) = 1 =>
          LET b == Db[CHOOSE k \in K : TRUE]
          IN rows[i].status =
               IF WithinTol(StoredAmount(b), csvRows[i].net)
               THEN "OK" ELSE "AMOUNT_MISMATCH"

(***************************************************************************)
(* C4: for every property group, safeTotal is the sum of csvNet over       *)
(* exactly the rows of the group whose status is OK; rows of any other     *)
(* status add nothing to any group's safeTotal.  (A csvNet that is absent  *)
(* or not a number counts 0.)                                              *)
(***************************************************************************)
NetValue(r) == IF r.csvNet.t = "number" THEN r.csvNet.v ELSE 0
DbValue(r) == IF r.dbTotal.t = "number" THEN r.dbTotal.v ELSE 0

RECURSIVE SumNet(_)
SumNet(rs) == IF rs = <<>> THEN 0 ELSE NetValue(Head(rs)) + SumNet(Tail(rs))

RECURSIVE SumDb(_)
SumDb(rs) == IF rs = <<>> THEN 0 ELSE DbValue(Head(rs)) + SumDb(Tail(rs))

RowsOfGroup(l) == SelectSeq(rows, LAMBDA r : r.property = l)

C4_SafeTotalIsSumOfOkRows ==
  \A l \in DOMAIN grouped :
     grouped[l].safeTotal =
        SumNet(SelectSeq(RowsOfGroup(l), LAMBDA r : r.status = "OK"))

\* a group with an OK row and a row of another status, both with a net
C4_Witness ==
  \E l \in DOMAIN grouped :
     /\ \E j \in 1..Len(rows) :
           rows[j].property = l /\ rows[j].status = "OK" /\ NetValue(rows[j]) > 0
     /\ \E j \in 1..Len(rows) :
           rows[j].property = l /\ rows[j].status # "OK" /\ NetValue(rows[j]) > 0
     /\ grouped[l].safeTotal > 0
     /\ grouped[l].safeTotal < grouped[l].csvTotal

(***************************************************************************)
(* C5: the status of a ledger row follows the precedence: no match ->      *)
(* MISSING_IN_DB, else more than one distinct property label ->            *)
(* MULTI_PROPERTY_REFERENCE, else more than one matched record ->          *)
(* DUPLICATE_DB_REFERENCE (whether or not the stored total equals the      *)
(* net), else a difference above 0.01 -> AMOUNT_MISMATCH, else OK.         *)
(***************************************************************************)
C5_Precedence ==
  \A i \in LedgerIdx :
     LET K == Designated(Db, csvRows[i].reference)
         net == csvRows[i].net
         above == net.t = "number" /\ Abs(SumAmounts(Db, K) - net.v) > Tol
         st == rows[i].status
     IN /\ (K = {}) => st = "MISSING_IN_DB"
        /\ (K # {} /\ Cardinality(LabelsOf(Db, K)) > 1)
              => st = "MULTI_PROPERTY_REFERENCE"
        /\ (Cardinality(LabelsOf(Db, K)) = 1 /\ Cardinality(K) > 1)
              => st = "DUPLICATE_DB_REFERENCE"
        /\ (Cardinality(K) = 1 /\ above) => st = "AMOUNT_MISMATCH"
        /\ (Cardinality(K) = 1 /\ ~above) => st = "OK"

\* two records of one property whose stored total equals the ledger net
C5_Witness ==
  \E i \in LedgerIdx :
     LET K == Designated(Db, csvRows[i].reference)
     IN /\ Cardinality(K) = 2
        /\ Cardinality(LabelsOf(Db, K)) = 1
        /\ csvRows[i].net = Num(SumAmounts(Db, K))
        /\ rows[i].status = "DUPLICATE_DB_REFERENCE"

(***************************************************************************)
(* C6: a stored Booking.com record is emitted as a MISSING_IN_CSV row if   *)
(* and only if no ledger row matched it, and then exactly once; that row   *)
(* adds the record's own amount to the dbTotal of its property group and   *)
(* nothing to any csvTotal or safeTotal.                                   *)
(***************************************************************************)
RemoveAt(rs, j) == SubSeq(rs, 1, j - 1) \o SubSeq(rs, j + 1, Len(rs))

GroupOrNew(map, l) == IF l \in DOMAIN map THEN map[l] ELSE NewGroup

\* what row j adds to the totals of group l
AddedBy(j, l) ==
  LET without == Grouped(RemoveAt(rows, j))
  IN [csvTotal |-> GroupOrNew(grouped, l).csvTotal - GroupOrNew(without, l).csvTotal,
      dbTotal |-> GroupOrNew(grouped, l).dbTotal - GroupOrNew(without, l).dbTotal,
      safeTotal |-> GroupOrNew(grouped, l).safeTotal - GroupOrNew(without, l).safeTotal]

IsMissingInCsvRowOf(r, b) ==
  r.status = "MISSING_IN_CSV" /\ r.dbRecords = Some(<<b>>)

C6_MissingInCsv ==
  \A k \in 1..Len(Db) :
     /\ CountRows(rows, LAMBDA r : IsMissingInCsvRowOf(r, Db[k]))
           = IF k \in Unmatched THEN 1 ELSE 0
     /\ \A j \in 1..Len(rows) :
           IsMissingInCsvRowOf(rows[j], Db[k]) =>
             \A l \in DOMAIN grouped :
                AddedBy(j, l) =
                  [csvTotal |-> 0,
                   dbTotal |-> IF l \in LabelsOf(Db, {k})
                               THEN StoredAmount(Db[k]) ELSE 0,
                   safeTotal |-> 0]

\* an unmatched record with a positive own amount in a group that also
\* holds a ledger row
C6_Witness ==
  \E k \in Unmatched : \E i \in LedgerIdx :
     /\ StoredAmount(Db[k]) > 0
     /\ rows[i].property \in LabelsOf(Db, {k})

(***************************************************************************)
(* C7: for each ledger row the matched stored records are exactly the      *)
(* fetched records of platform Booking.com whose reservation reference     *)
(* contains the ledger reference as a substring; records of any other      *)
(* platform are never matched and appear in no reconciliation row.         *)
(* As claimed, records without a reference appear in no row either; as     *)
(* amended, they are never matched and appear as MISSING_IN_CSV rows only. *)
(***************************************************************************)
Fetched == AllBookings(data)

RecordsOf(r) == IF IsDefined(r.dbRecords) THEN r.dbRecords[1] ELSE <<>>

AppearsIn(b, r) == \E k \in 1..Len(RecordsOf(r)) : RecordsOf(r)[k] = b

MatchedExactlyTheContaining ==
  \A i \in LedgerIdx :
     { RecordsOf(rows[i])[k] : k \in 1..Len(RecordsOf(rows[i])) }
        = { Fetched[k] : k \in
              { x \in 1..Len(Fetched) :
                  /\ Fetched[x].platform = "Booking.com"
                  /\ IsDefined(Fetched[x].reservationId)
                  /\ IsSubstring(csvRows[i].reference, Fetched[x].reservationId[1]) } }

OtherPlatformsNeverAppear ==
  \A k \in 1..Len(Fetched) :
     Fetched[k].platform # "Booking.com"
        => \A j \in 1..Len(rows) : ~AppearsIn(Fetched[k], rows[j])

\* the claim as made
C7_NoReferenceNeverAppears ==
  /\ MatchedExactlyTheContaining
  /\ OtherPlatformsNeverAppear
  /\ \A k \in 1..Len(Fetched) :
        ~IsDefined(Fetched[k].reservationId)
           => \A j \in 1..Len(rows) : ~AppearsIn(Fetched[k], rows[j])

\* the claim as amended
C7_MatchedAreTheContaining ==
  /\ MatchedExactlyTheContaining
  /\ OtherPlatformsNeverAppear
  /\ \A k \in 1..Len(Fetched) :
        ~IsDefined(Fetched[k].reservationId)
           => \A j \in 1..Len(rows) :
                 AppearsIn(Fetched[k], rows[j]) => rows[j].status = "MISSING_IN_CSV"

\* a ledger reference inside, not at the start of, a stored reference, with
\* a record of another platform that contains it too
C7_Witness ==
  \E i \in LedgerIdx :
     /\ csvRows[i].reference # <<>>
     /\ \E k \in 1..Len(RecordsOf(rows[i])) :
           LET ref == RecordsOf(rows[i])[k].reservationId[1]
           IN /\ Len(ref) > Len(csvRows[i].reference)
              /\ SubSeq(ref, 1, Len(csvRows[i].reference)) # csvRows[i].reference
     /\ \E k \in 1..Len(Fetched) :
           /\ Fetched[k].platform # "Booking.com"
           /\ IsSubstring(csvRows[i].reference, Fetched[k].reservationId[1])

(***************************************************************************)
(* C8: the aggregation partitions the rows: every row lies in exactly one  *)
(* group, the group of its label; MISSING_IN_DB rows lie under the         *)
(* unmatched label, MULTI_PROPERTY_REFERENCE rows under the cross-property *)
(* label and never under a property, every other row under the property    *)
(* label of its matched records; csvTotal and dbTotal of a group are the   *)
(* sums of csvNet and dbTotal over all rows of the group.                  *)
(***************************************************************************)
C8_GroupsPartitionRows ==
  /\ DOMAIN grouped = { rows[j].property : j \in 1..Len(rows) }
  /\ \A l \in DOMAIN grouped :
        /\ grouped[l].rows = RowsOfGroup(l)
        /\ grouped[l].csvTotal = SumNet(RowsOfGroup(l))
        /\ grouped[l].dbTotal = SumDb(RowsOfGroup(l))
  /\ \A j \in 1..Len(rows) :
        LET r == rows[j]
            labels == { IF IsDefined(RecordsOf(r)[k].propertyId)
                        THEN RecordsOf(r)[k].propertyId[1].name
                        ELSE "Unknown Property" : k \in 1..Len(RecordsOf(r)) }
        IN IF r.status = "MISSING_IN_DB" THEN r.property = UnmatchedLabel
           ELSE IF r.status = "MULTI_PROPERTY_REFERENCE"
                THEN r.property = CrossPropertyLabel /\ r.property \notin labels
                ELSE labels = {r.property}

\* a cross-property row, an unmatched ledger row and a row of a property
C8_Witness ==
  /\ \E j \in 1..Len(rows) : rows[j].status = "MULTI_PROPERTY_REFERENCE"
  /\ \E j \in 1..Len(rows) : rows[j].status = "MISSING_IN_DB"
  /\ Cardinality(DOMAIN grouped) >= 2

(***************************************************************************)
(* C9: every ledger row handed to the matcher has a non-empty reference:   *)
(* the upload handler discards each parsed row whose reference cell is     *)
(* missing or empty and keeps every other row once, in file order, with    *)
(* its reference trimmed.                                                  *)
(***************************************************************************)
KeptCells ==
  SelectSeq(parsed, LAMBDA r : r.reference # Undefined /\ r.reference # Some(<<>>))

Uploaded == Len(parsed) > 0 /\ csvRows # <<>>

C9_ReferencesNonEmpty ==
  /\ \A i \in LedgerIdx : csvRows[i].reference # <<>>
  /\ Uploaded =>
        /\ Len(csvRows) = Len(KeptCells)
        /\ \A i \in LedgerIdx :
              csvRows[i].reference = Trim(KeptCells[i].reference[1])

(***************************************************************************)
(* C11: the matcher never fails: whatever the stored records lack (a       *)
(* reference, a property, an expectedPayment) and whatever the ledger rows *)
(* match, every output row carries exactly one status of the six, and a    *)
(* ledger row that matches nothing is classified MISSING_IN_DB.            *)
(***************************************************************************)
Statuses ==
  { "OK", "MISSING_IN_DB", "MISSING_IN_CSV", "AMOUNT_MISMATCH",
    "DUPLICATE_DB_REFERENCE", "MULTI_PROPERTY_REFERENCE" }

C11_EveryRowClassified ==
  /\ \A j \in 1..Len(rows) : rows[j].status \in Statuses
  /\ \A i \in LedgerIdx :
        Designated(Db, csvRows[i].reference) = {}
           <=> rows[i].status = "MISSING_IN_DB"
  /\ \A k \in 1..Len(Db) : \E j \in 1..Len(rows) : AppearsIn(Db[k], rows[j])

\* a record without reference, a record without property and expectedPayment
\* matched with an amount that agrees, and a ledger row that matches nothing
C11_Witness ==
  /\ \E k \in 1..Len(Db) : ~IsDefined(Db[k].reservationId)
  /\ \E i \in LedgerIdx :
        /\ rows[i].status = "OK"
        /\ \E k \in Designated(Db, csvRows[i].reference) :
              ~IsDefined(Db[k].propertyId) /\ ~IsDefined(Db[k].expectedPayment)
  /\ \E i \in LedgerIdx : rows[i].status = "MISSING_IN_DB"

(***************************************************************************)
(* C12: matching starts only after both the fetch of the stored records    *)
(* and the parse of the ledger have completed: in every ordering of 'dates *)
(* chosen', 'fetch resolves' and 'file parsed' no reconciliation row is    *)
(* produced while the stored records are still being fetched, so no ledger *)
(* row is MISSING_IN_DB merely because the fetch has not returned.         *)
(***************************************************************************)
Fetching == enabled /\ ~IsDefined(data)

C12_MatchingAfterFetch ==
  /\ Fetching => rows = <<>>
  /\ \A i \in LedgerIdx :
        rows[i].status = "MISSING_IN_DB"
           => Designated(DbBookings(response), csvRows[i].reference) = {}

(***************************************************************************)
(* The bookings API (app/api/bookings/route.ts) over the Booking           *)
(* collection.  A stored booking is a record; ids are handed out by a      *)
(* counter; the id 0 stands for a string that is no ObjectId.  Instants    *)
(* are counted in ticks, TicksPerDay ticks to the day.                     *)
(***************************************************************************)
\* bookings ever created in one run
MaxBookings == 2

TicksPerDay == 2

StatusEnum == { "booked", "checkin", "checkout", "cancel" }

Refs == { "R1", "R2" }

\* the values `AUTO-${Date.now()}-${Math.floor(Math.random() * 1000)}` takes
AutoRefs == { "AUTO-1" }

Rooms == { "rA" }

Doc(id, ref, status, room, property, checkIn, checkOut) ==
  [ id |-> id, reservationId |-> ref, status |-> status, roomId |-> room,
    propertyId |-> property, checkInDate |-> checkIn,
    checkOutDate |-> checkOut ]

\* request bodies of POST: the reference and the status may be missing, the
\* reference may be empty, the status may be outside the enumeration, and
\* guestName stands for the required fields of the schema
\* (a body fails one validator at most)
PostBodies ==
  { b \in [ reservationId : { Undefined, Some(""), Some("R1") },
            status : { Undefined, Some("cancel"), Some("bogus") },
            guestName : { Undefined, Some("guest") },
            propertyId : { "P1" },
            checkInDate : { 0 },
            checkOutDate : { TicksPerDay } ] :
      ~IsDefined(b.guestName) => ~IsDefined(b.status) }

\* the ids the requests name: none, a string that is no ObjectId, the first
\* booking created, the second
RequestIds == { Undefined } \cup { Some(n) : n \in 0..2 }

\* request bodies of PATCH; a roomId is sent with "assign" only, and one
\* body stands for those without bookingId
PatchBodies ==
  { b \in [ bookingId : RequestIds,
            action : { Undefined, Some("assign"), Some("checkin"),
                       Some("checkout"), Some("other") },
            roomId : { Undefined } \cup { Some(r) : r \in Rooms } ] :
      /\ IsDefined(b.roomId) => b.action = Some("assign")
      /\ ~IsDefined(b.bookingId) => b.action = Some("checkin") }

DeleteParams == [ bookingId : RequestIds, permanent : BOOLEAN ]

\* a string mongoose can cast to an ObjectId
IsObjectId(id) == id >= 1

\* Booking.findOne({ reservationId, status: { $ne: "cancel" } })
FindOneActive(st, ref) ==
  { d \in st : d.reservationId = ref /\ d.status # "cancel" }

\* an index without uniqueness: no insert is refused
DuplicateKeyNever(st, ref) == FALSE

\* an index that looks at the non-cancelled bookings only
DuplicateKeyAmongActive(st, ref) == FindOneActive(st, ref) # {}

\* the unique index on reservationId refuses the insert
DuplicateKey(st, ref) == \E d \in st : d.reservationId = ref

\* the validators Booking.create runs: required fields, enum of status
ValidationFails(body, status) ==
  ~IsDefined(body.guestName) \/ status \notin StatusEnum

FindById(st, id) == { d \in st : d.id = id }

\* an update of the status that loses the record
SetStatusRemoving(st, id, status) == { d \in st : d.id # id }

\* findByIdAndUpdate(id, { status }) (no validators run)
SetStatus(st, id, status) ==
  { IF d.id = id THEN [d EXCEPT !.status = status] ELSE d : d \in st }

\* an update of the room that resets the status as well
SetRoomAndStatus(st, id, room) ==
  { IF d.id = id THEN [d EXCEPT !.roomId = room, !.status = "booked"] ELSE d :
      d \in st }

\* findByIdAndUpdate(id, { roomId }): an undefined roomId leaves the update
\* empty
SetRoom(st, id, room) ==
  IF IsDefined(room)
    THEN { IF d.id = id THEN [d EXCEPT !.roomId = room] ELSE d : d \in st }
    ELSE st

Answer(op, req, code) == [ op |-> op, req |-> req, code |-> code ]

\* a refusal that does not say why
RefusedSilently(op, req, error) ==
  [ op |-> op, req |-> req, code |-> 400, error |-> "" ]

\* NextResponse.json({ error }, { status: 400 })
Refused(op, req, error) ==
  [ op |-> op, req |-> req, code |-> 400, error |-> error ]

\* the answer to a POST, with the reference the handler settled on
PostAnswer(body, ref, code) ==
  [ op |-> "POST", req |-> body, code |-> code, reservationId |-> ref ]

\* POST /api/bookings; no booking is created beyond MaxBookings
Post ==
  /\ \E body \in PostBodies, auto \in AutoRefs :
       LET reservationId ==
             IF ~IsDefined(body.reservationId) \/ body.reservationId[1] = ""
               THEN auto ELSE body.reservationId[1]
           status == IF IsDefined(body.status) /\ body.status[1] # ""
                       THEN body.status[1] ELSE "booked"
       IN IF FindOneActive(store, reservationId) # {}
            THEN /\ reply' = PostAnswer(body, reservationId, 409)
                 /\ UNCHANGED <<store, nextId>>
          ELSE IF \/ ValidationFails(body, status)
                  \/ DuplicateKey(store, reservationId)
            THEN /\ reply' = PostAnswer(body, reservationId, 500)
                 /\ UNCHANGED <<store, nextId>>
          ELSE /\ nextId <= MaxBookings
               /\ store' = store \cup
                     { Doc(nextId, reservationId, status, Undefined,
                           body.propertyId, body.checkInDate,
                           body.checkOutDate) }
               /\ nextId' = nextId + 1
               /\ reply' = PostAnswer(body, reservationId, 200)
  /\ UNCHANGED reqs
  /\ UNCHANGED pageVars

\* PATCH /api/bookings
Patch ==
  /\ \E body \in PatchBodies :
       IF ~IsDefined(body.bookingId)
         THEN /\ reply' = Refused("PATCH", body, "bookingId required")
              /\ store' = store
       ELSE IF body.action \notin
                 { Some("assign"), Some("checkin"), Some("checkout") }
         THEN \* booking stays undefined: NextResponse.json(undefined) answers
              \* or throws into the catch, as the version of next has it
              /\ \E code \in { 200, 500 } : reply' = Answer("PATCH", body, code)
              /\ store' = store
       ELSE IF ~IsObjectId(body.bookingId[1])
         THEN /\ reply' = Answer("PATCH", body, 500)
              /\ store' = store
       ELSE /\ reply' = Answer("PATCH", body, 200)
            /\ store' =
                 IF body.action = Some("assign")
                   THEN SetRoom(store, body.bookingId[1], body.roomId)
                 ELSE IF body.action = Some("checkin")
                   THEN SetStatus(store, body.bookingId[1], "checked_in")
                 ELSE SetStatus(store, body.bookingId[1], "checked_out")
  /\ UNCHANGED <<nextId, reqs>>
  /\ UNCHANGED pageVars

\* DELETE /api/bookings
Delete ==
  /\ \E params \in DeleteParams :
       IF ~IsDefined(params.bookingId)
         THEN /\ reply' = Refused("DELETE", params, "bookingId required")
              /\ store' = store
       ELSE IF ~IsObjectId(params.bookingId[1])
         THEN /\ reply' = Answer("DELETE", params, 500)
              /\ store' = store
       ELSE IF params.permanent
         THEN IF FindById(store, params.bookingId[1]) = {}
                THEN /\ reply' = Answer("DELETE", params, 404)
                     /\ store' = store
                ELSE /\ reply' = Answer("DELETE", params, 200)
                     /\ store' = store \ FindById(store, params.bookingId[1])
       ELSE /\ reply' = Answer("DELETE", params, 200)
            /\ store' = SetStatus(store, params.bookingId[1], "cancel")
  /\ UNCHANGED <<nextId, reqs>>
  /\ UNCHANGED pageVars

\* the page is not open
PageIdle ==
  /\ response = <<>>
  /\ parsed = <<>>
  /\ data = Undefined
  /\ csvRows = <<>>
  /\ rows = <<>>
  /\ grouped = NoGroups
  /\ enabled = FALSE

InitApi == PageIdle /\ ApiIdle

NextApi == Post \/ Patch \/ Delete

\* the API serving one request at a time
SpecApi == InitApi /\ [][NextApi]_vars

(***************************************************************************)
(* POST requests served concurrently: each request is split at its awaits, *)
(* the findOne of the duplicate check and the create.                      *)
(***************************************************************************)
\* requests in flight together
MaxClients == 2

Clients == 1..MaxClients

\* the well-formed bodies the clients send
RaceBodies ==
  [ reservationId : { Some(r) : r \in Refs },
    status : { Undefined, Some("cancel") },
    guestName : { Some("guest") },
    propertyId : { "P1" },
    checkInDate : { 0 },
    checkOutDate : { TicksPerDay } ]

\* the collection the requests meet: empty, or one cancelled booking
RaceStores == { {}, { Doc(1, "R1", "cancel", Undefined, "P1", 0, TicksPerDay) } }

InitRace ==
  /\ PageIdle
  /\ store \in RaceStores
  /\ nextId = Cardinality(store) + 1
  /\ reply = [op |-> "none"]
  /\ reqs \in [ Clients ->
                  [ pc : { "start" }, body : RaceBodies,
                    reservationId : { "" }, code : { 0 } ] ]

\* route.ts 138-154: the reference is settled and the duplicate check made
PostCheck(c) ==
  /\ reqs[c].pc = "start"
  /\ \E auto \in AutoRefs :
       LET body == reqs[c].body
           reservationId ==
             IF ~IsDefined(body.reservationId) \/ body.reservationId[1] = ""
               THEN auto ELSE body.reservationId[1]
       IN reqs' = [reqs EXCEPT
            ![c] = IF FindOneActive(store, reservationId) # {}
                     THEN [@ EXCEPT !.pc = "done", !.code = 409,
                                    !.reservationId = reservationId]
                     ELSE [@ EXCEPT !.pc = "checked",
                                    !.reservationId = reservationId]]
  /\ UNCHANGED <<store, nextId, reply>>
  /\ UNCHANGED pageVars

\* route.ts 156-162: the create, or the catch when it throws
PostWrite(c) ==
  /\ reqs[c].pc = "checked"
  /\ LET body == reqs[c].body
         reservationId == reqs[c].reservationId
         status == IF IsDefined(body.status) /\ body.status[1] # ""
                     THEN body.status[1] ELSE "booked"
     IN IF \/ ValidationFails(body, status)
           \/ DuplicateKey(store, reservationId)
          THEN /\ reqs' = [reqs EXCEPT ![c].pc = "done", ![c].code = 500]
               /\ UNCHANGED <<store, nextId>>
          ELSE /\ store' = store \cup
                     { Doc(nextId, reservationId, status, Undefined,
                           body.propertyId, body.checkInDate,
                           body.checkOutDate) }
               /\ nextId' = nextId + 1
               /\ reqs' = [reqs EXCEPT ![c].pc = "done", ![c].code = 200]
  /\ UNCHANGED reply
  /\ UNCHANGED pageVars

NextRace == \E c \in Clients : PostCheck(c) \/ PostWrite(c)

SpecRace == InitRace /\ [][NextRace]_vars

(***************************************************************************)
(* The queries: GET /api/bookings and the GET of the occupancy of one      *)
(* property.  A date parameter is the instant new Date(...) makes of it,   *)
(* or NaN (Invalid Date); the days are those of the server's clock.        *)
(***************************************************************************)
\* stored bookings the queries run over
MaxQueryDocs == 2

QueryDays == 0..2

\* setHours(0, 0, 0, 0)
StartOfDay(t) == t - (t % TicksPerDay)

\* setHours(23, 59, 59, 999)
EndOfDay(t) == StartOfDay(t) + (TicksPerDay - 1)

\* the first and the last instant of each day
Instants ==
  { d * TicksPerDay : d \in QueryDays }
    \cup { d * TicksPerDay + (TicksPerDay - 1) : d \in QueryDays }

\* the Room collection: the property each room belongs to ("rX" is no room)
RoomProperty(room) ==
  IF room = "rA" THEN Some("P1")
  ELSE IF room = "rB" THEN Some("P2")
  ELSE Undefined

\* the bookings of room rA, one for each stay, and bookings that differ in
\* status, in room and in property
QueryDocs ==
  { Doc(10 * p[1] + p[2] + 1, "R1", "booked", Some("rA"), "P1", p[1], p[2]) :
      p \in { pp \in Instants \X Instants : pp[1] <= pp[2] } }
    \cup
  { Doc(101, "R2", "cancel", Some("rA"), "P1", 0, EndOfDay(2 * TicksPerDay)),
    Doc(102, "R2", "checked_in", Some("rA"), "P1", 0, TicksPerDay),
    Doc(103, "R2", "booked", Some("rB"), "P2", 0, EndOfDay(2 * TicksPerDay)),
    Doc(104, "R2", "booked", Some("rX"), "P1", 0, EndOfDay(2 * TicksPerDay)),
    Doc(105, "R2", "booked", Undefined, "P1", TicksPerDay,
        2 * TicksPerDay) }

\* the collections of at most MaxQueryDocs of them
QueryStores ==
  UNION { { { f[k] : k \in 1..n } : f \in [ 1..n -> QueryDocs ] } :
            n \in 0..MaxQueryDocs }

DateParams == { Undefined, Some(NaN) } \cup { Some(Num(t)) : t \in Instants }

\* new Date(dateParam), or new Date() when there is none
SelectedDate(dateParam, now) ==
  IF IsDefined(dateParam) THEN dateParam[1] ELSE Num(now)

\* the instants new Date() can give
Clock(dateParam) == IF IsDefined(dateParam) THEN { 0 } ELSE Instants

\* new mongoose.Types.ObjectId(propertyId) does not throw
IsPropertyObjectId(propertyId) == propertyId \in { "P1", "P2", "P3" }

\* the occupancy test of the comment above it: strictly inside the stay
OccupiesStrictly(d, startOfDay, endOfDay) ==
  /\ d.status # "cancel"
  /\ d.checkInDate < endOfDay
  /\ d.checkOutDate > startOfDay
  /\ IsDefined(d.roomId)

\* the filter of Booking.find in the occupancy query
Occupies(d, startOfDay, endOfDay) ==
  /\ d.status # "cancel"
  /\ d.checkInDate <= endOfDay
  /\ d.checkOutDate >= startOfDay
  /\ IsDefined(d.roomId)

\* populate with match, then filter: the room exists and is of the property
RoomMatches(d, propertyId) == RoomProperty(d.roomId[1]) = Some(propertyId)

\* the tag with the two tests in the other order
TypeOfCheckoutFirst(d, selectedDay) ==
  IF StartOfDay(d.checkOutDate) = selectedDay THEN "checkout"
  ELSE IF StartOfDay(d.checkInDate) = selectedDay THEN "checkin"
  ELSE "stay"

\* the tag added for the frontend
TypeOf(d, selectedDay) ==
  IF StartOfDay(d.checkInDate) = selectedDay THEN "checkin"
  ELSE IF StartOfDay(d.checkOutDate) = selectedDay THEN "checkout"
  ELSE "stay"

\* { ...b.toObject(), type }
WithType(d, selectedDay) == [ doc |-> d, type |-> Some(TypeOf(d, selectedDay)) ]

Plain(d) == [ doc |-> d, type |-> Undefined ]

\* .sort({ checkInDate: 1 }), bookings of one check-in in the order of the ids
RECURSIVE SortByCheckIn(_)
SortByCheckIn(S) ==
  IF S = {} THEN <<>>
  ELSE LET first == CHOOSE d \in S : \A e \in S :
                      \/ d.checkInDate < e.checkInDate
                      \/ d.checkInDate = e.checkInDate /\ d.id <= e.id
       IN <<first>> \o SortByCheckIn(S \ {first})

\* bookings.map(...) with the tag
AllWithType(seq, selectedDay) ==
  [ k \in 1..Len(seq) |-> WithType(seq[k], selectedDay) ]

\* the bookings as they are
AllPlain(seq) == [ k \in 1..Len(seq) |-> Plain(seq[k]) ]

GetAnswer(op, q, code, selectedDate, body) ==
  [ op |-> op, req |-> q, code |-> code, selectedDate |-> selectedDate,
    body |-> body, failure |-> "none" ]

\* a catch that answers the empty list as a success
FailedAnswerAsSuccess(op, q, selectedDate, failure) ==
  [ op |-> op, req |-> q, code |-> 200, selectedDate |-> selectedDate,
    body |-> <<>>, failure |-> failure ]

\* the catch of a query: NextResponse.json([], { status: 500 })
FailedAnswer(op, q, selectedDate, failure) ==
  [ op |-> op, req |-> q, code |-> 500, selectedDate |-> selectedDate,
    body |-> <<>>, failure |-> failure ]

\* how the persistence layer fares in a request: it works, connectDB throws,
\* or the query throws
Failures == { "none", "connect", "find" }

\* the queries the occupancy page sends, and some it does not
PropertyQueries ==
  { q \in [ propertyId : { Undefined, Some("P1"), Some("P2"), Some("zz") },
            date : DateParams ] :
      q.propertyId # Some("P1") => q.date \in { Undefined, Some(Num(0)) } }

\* GET of the occupancy of one property, for the queries and the fortunes of
\* the persistence layer given
GetByPropertyWith(queries, failures) ==
  /\ \E q \in queries, failure \in failures : \E now \in Clock(q.date) :
       LET selectedDate == SelectedDate(q.date, now)
           startOfDay == StartOfDay(selectedDate.v)
           endOfDay == EndOfDay(selectedDate.v)
           bookings ==
             SortByCheckIn({ d \in store : Occupies(d, startOfDay, endOfDay) })
           filteredBookings ==
             SelectSeq(bookings, LAMBDA d : RoomMatches(d, q.propertyId[1]))
           bookingsWithType == AllWithType(filteredBookings, startOfDay)
       IN IF failure = "connect"
            THEN reply' = FailedAnswer("GET property", q, selectedDate, failure)
          ELSE IF ~IsDefined(q.propertyId)
            THEN reply' = Refused("GET property", q, "propertyId is required")
          ELSE IF \/ selectedDate = NaN
                  \/ ~IsPropertyObjectId(q.propertyId[1])
                  \/ failure = "find"
            THEN reply' = FailedAnswer("GET property", q, selectedDate, failure)
          ELSE reply' = GetAnswer("GET property", q, 200, selectedDate,
                                  bookingsWithType)
  /\ UNCHANGED <<store, nextId, reqs>>
  /\ UNCHANGED pageVars

GetByProperty == GetByPropertyWith(PropertyQueries, { "none" })

\* the parameters of GET /api/bookings: unassigned stands for
\* unassigned === "true"
BookingsQueries ==
  { q \in [ unassigned : BOOLEAN,
            date : DateParams,
            start : { Undefined, Some(NaN), Some(Num(TicksPerDay)) },
            end : { Undefined, Some(Num(EndOfDay(TicksPerDay))) },
            propertyId : { Undefined, Some("P1"), Some("zz") } ] :
      /\ q.unassigned =>
           ~IsDefined(q.start) /\ ~IsDefined(q.end) /\ ~IsDefined(q.propertyId)
      /\ (IsDefined(q.start) \/ IsDefined(q.end)) => ~IsDefined(q.date) }

\* query.propertyId = new mongoose.Types.ObjectId(propertyId), if there is one
OfProperty(d, propertyId) ==
  IsDefined(propertyId) => d.propertyId = propertyId[1]

\* the $or of the single-date query
OnDay(d, startOfDay, endOfDay) ==
  /\ d.status # "cancel"
  /\ \/ d.checkInDate >= startOfDay /\ d.checkInDate <= endOfDay
     \/ d.checkOutDate >= startOfDay /\ d.checkOutDate <= endOfDay
     \/ d.checkInDate <= endOfDay /\ d.checkOutDate >= startOfDay

\* the filter without the test of the room
UnassignedAnyRoom(d, startOfDay, endOfDay) ==
  /\ d.status # "cancel"
  /\ d.checkInDate >= startOfDay
  /\ d.checkInDate <= endOfDay

\* the filter of the unassigned query
Unassigned(d, startOfDay, endOfDay) ==
  /\ ~IsDefined(d.roomId)
  /\ d.status # "cancel"
  /\ d.checkInDate >= startOfDay
  /\ d.checkInDate <= endOfDay

\* GET /api/bookings, for the queries and the fortunes of the persistence
\* layer given
GetBookingsWith(queries, failures) ==
  /\ \E q \in queries, failure \in failures : \E now \in Clock(q.date) :
       LET selectedDate == SelectedDate(q.date, now)
           startOfDay == StartOfDay(selectedDate.v)
           endOfDay == EndOfDay(selectedDate.v)
           badProperty ==
             IsDefined(q.propertyId) /\ ~IsPropertyObjectId(q.propertyId[1])
       IN IF failure = "connect"
            THEN reply' = FailedAnswer("GET", q, selectedDate, failure)
          ELSE IF q.unassigned
            THEN IF ~IsDefined(q.date)
                   THEN reply' =
                          Refused("GET", q,
                                  "date is required for unassigned guests")
                 ELSE IF selectedDate = NaN \/ failure = "find"
                   THEN reply' = FailedAnswer("GET", q, selectedDate, failure)
                 ELSE reply' = GetAnswer("GET", q, 200, selectedDate,
                        AllPlain(SortByCheckIn(
                          { d \in store :
                              Unassigned(d, startOfDay, endOfDay) })))
          ELSE IF IsDefined(q.start) /\ IsDefined(q.end)
            THEN IF \/ q.start[1] = NaN
                    \/ q.end[1] = NaN
                    \/ badProperty
                    \/ failure = "find"
                   THEN reply' = FailedAnswer("GET", q, selectedDate, failure)
                   ELSE reply' = GetAnswer("GET", q, 200, selectedDate,
                          AllPlain(SortByCheckIn(
                            { d \in store :
                                /\ d.status # "cancel"
                                /\ d.checkInDate >= StartOfDay(q.start[1].v)
                                /\ d.checkInDate <= EndOfDay(q.end[1].v)
                                /\ OfProperty(d, q.propertyId) })))
          ELSE IF selectedDate = NaN \/ badProperty \/ failure = "find"
            THEN reply' = FailedAnswer("GET", q, selectedDate, failure)
          ELSE reply' = GetAnswer("GET", q, 200, selectedDate,
                 AllWithType(SortByCheckIn(
                               { d \in store :
                                   /\ OnDay(d, startOfDay, endOfDay)
                                   /\ OfProperty(d, q.propertyId) }),
                             startOfDay))
  /\ UNCHANGED <<store, nextId, reqs>>
  /\ UNCHANGED pageVars

GetBookings == GetBookingsWith(BookingsQueries, { "none" })

InitQuery ==
  /\ PageIdle
  /\ store \in QueryStores
  /\ nextId = 1
  /\ reply = [op |-> "none"]
  /\ reqs = <<>>

\* no query has been answered yet
Unanswered == reply.op = "none"

\* one query in a run: a query reads the collection and nothing else, and
\* leaves it as it is
NextQuery ==
  \/ Unanswered /\ GetByProperty
  \/ Unanswered /\ GetBookings

SpecQuery == InitQuery /\ [][NextQuery]_vars

(***************************************************************************)
(* Vocabulary of the properties of the API.                                *)
(***************************************************************************)
Active(st) == { d \in st : d.status # "cancel" }

Ids(st) == { d.id : d \in st }

\* a request that carries the required fields and a status of the schema
WellFormed(body) ==
  /\ IsDefined(body.guestName)
  /\ IsDefined(body.status) => body.status[1] \in StatusEnum

\* d2 is d1 but for the field the update is about
SameButStatus(d1, d2) == d2 = [d1 EXCEPT !.status = d2.status]

SameButRoom(d1, d2) == d2 = [d1 EXCEPT !.roomId = d2.roomId]

(***************************************************************************)
(* C13: a well-formed POST answers 409 and leaves the store unchanged      *)
(* exactly when a non-cancelled booking holds the reference; in every      *)
(* other case, the reference being held by cancelled bookings only         *)
(* included, it stores exactly one new booking with the supplied or        *)
(* generated non-empty reference and the supplied status, or booked.       *)
(***************************************************************************)
C13_PostCreatesUnlessActive ==
  [][ (reply'.op = "POST" /\ WellFormed(reply'.req)) =>
        IF FindOneActive(store, reply'.reservationId) # {}
          THEN reply'.code = 409 /\ store' = store
          ELSE /\ reply'.code # 409
               /\ \E d \in store' \ store :
                    /\ store' = store \cup {d}
                    /\ d.reservationId = reply'.reservationId
                    /\ d.reservationId # ""
                    /\ d.status = IF IsDefined(reply'.req.status)
                                    THEN reply'.req.status[1] ELSE "booked"
    ]_vars

(***************************************************************************)
(* C14: after any sequence of creates, updates, soft deletes and permanent *)
(* deletes served one at a time, no two stored bookings whose status is    *)
(* not cancel share a reference.                                           *)
(***************************************************************************)
C14_ActiveReferencesUnique ==
  \A d1 \in Active(store), d2 \in Active(store) :
     d1.reservationId = d2.reservationId => d1 = d2

\* a cancelled booking is back among the non-cancelled ones, next to another
C14_Witness ==
  /\ Cardinality(Active(store)) = 2
  /\ reply.op = "PATCH"
  /\ reply.code = 200
  /\ \E d \in store : d.status = "checked_in" /\ reply.req.bookingId = Some(d.id)

(***************************************************************************)
(* C16: the status of every stored booking is one of booked, checkin,      *)
(* checkout, cancel, at all times.                                         *)
(***************************************************************************)
C16_StatusInEnum == \A d \in store : d.status \in StatusEnum

(***************************************************************************)
(* C17: a PATCH has exactly one effect, chosen by its action: assign sets  *)
(* the room of the booking and nothing else, checkin and checkout change   *)
(* the status of the booking and nothing else, no action changes another   *)
(* booking, and any other or missing action changes nothing.               *)
(***************************************************************************)
C17_PatchOneEffect ==
  [][ reply'.op = "PATCH" =>
        LET body == reply'.req
        IN /\ Ids(store') = Ids(store)
           /\ \A d \in store :
                \/ d \in store'
                \/ /\ body.bookingId = Some(d.id)
                   /\ \E e \in store' :
                        /\ e.id = d.id
                        /\ body.action = Some("assign")
                             => SameButRoom(d, e) /\ e.roomId = body.roomId
                        /\ body.action \in { Some("checkin"), Some("checkout") }
                             => SameButStatus(d, e)
                        /\ body.action \in { Some("assign"), Some("checkin"),
                                             Some("checkout") }
    ]_vars

\* a room has been assigned to one of two bookings whose status is not booked
C17_Witness ==
  /\ reply.op = "PATCH"
  /\ reply.req.action = Some("assign")
  /\ Cardinality(store) = 2
  /\ \E d \in store :
        /\ reply.req.bookingId = Some(d.id)
        /\ d.roomId = reply.req.roomId
        /\ IsDefined(d.roomId)
        /\ d.status = "checked_in"

(***************************************************************************)
(* C18: a booking leaves the store only through DELETE with permanent=true *)
(* naming it; DELETE without the flag keeps the record and sets its status *)
(* to cancel; no create and no update removes a booking; a permanent       *)
(* delete of an id that does not exist answers 404 and changes nothing.    *)
(***************************************************************************)
C18_RemovedOnlyByPermanentDelete ==
  [][ /\ \A d \in store :
           d.id \notin Ids(store') =>
              /\ reply'.op = "DELETE"
              /\ reply'.req.permanent
              /\ reply'.req.bookingId = Some(d.id)
              /\ reply'.code = 200
      /\ (reply'.op = "DELETE" /\ ~reply'.req.permanent) =>
           /\ Ids(store') = Ids(store)
           /\ \A d \in store :
                IF reply'.req.bookingId = Some(d.id)
                  THEN [d EXCEPT !.status = "cancel"] \in store'
                  ELSE d \in store'
      /\ ( /\ reply'.op = "DELETE"
           /\ reply'.req.permanent
           /\ IsDefined(reply'.req.bookingId)
           /\ IsObjectId(reply'.req.bookingId[1])
           /\ reply'.req.bookingId[1] \notin Ids(store) ) =>
           reply'.code = 404 /\ store' = store
    ]_vars

\* a booking has been removed for good while a cancelled one is kept
C18_Witness ==
  /\ reply.op = "DELETE"
  /\ reply.req.permanent
  /\ reply.code = 200
  /\ IsDefined(reply.req.bookingId)
  /\ reply.req.bookingId[1] \notin Ids(store)
  /\ \E d \in store : d.status = "cancel"

(***************************************************************************)
(* C15 as stated: two creates with the same reference that both pass the   *)
(* duplicate check before either write commits both commit their writes,   *)
(* and two non-cancelled bookings hold the same reference.                 *)
(***************************************************************************)
\* both requests are served, with one reference, and neither was answered 409
BothPassedTheCheck(c1, c2) ==
  /\ c1 # c2
  /\ reqs[c1].pc = "done" /\ reqs[c2].pc = "done"
  /\ reqs[c1].reservationId = reqs[c2].reservationId
  /\ reqs[c1].code # 409 /\ reqs[c2].code # 409
  /\ reqs[c1].body.status = Undefined /\ reqs[c2].body.status = Undefined

C15_BothWritesCommit ==
  \A c1 \in Clients, c2 \in Clients :
     BothPassedTheCheck(c1, c2) =>
        /\ reqs[c1].code = 200 /\ reqs[c2].code = 200
        /\ Cardinality(FindOneActive(store, reqs[c1].reservationId)) >= 2

(***************************************************************************)
(* C15 amended: the duplicate check is not atomic, two creates with the    *)
(* same reference can both pass it before either write commits; then the   *)
(* unique index lets at most one of the writes commit and the request it   *)
(* refuses is answered 500: no two stored bookings ever hold the same      *)
(* reference.                                                              *)
(***************************************************************************)
C15_IndexSettlesTheRace ==
  /\ \A d1 \in store, d2 \in store :
        d1.reservationId = d2.reservationId => d1 = d2
  /\ \A c1 \in Clients, c2 \in Clients :
        BothPassedTheCheck(c1, c2) =>
           /\ { reqs[c1].code, reqs[c2].code } \in { { 200, 500 }, { 500 } }
           /\ \E d \in store : d.reservationId = reqs[c1].reservationId

\* both requests passed the check for a reference nobody held: one is stored
C15_Witness ==
  /\ BothPassedTheCheck(1, 2)
  /\ reqs[1].reservationId = "R2"
  /\ reqs[1].code = 200
  /\ reqs[2].code = 500
  /\ Cardinality(FindOneActive(store, "R2")) = 1

(***************************************************************************)
(* Vocabulary of the properties of the queries.                            *)
(***************************************************************************)
DayOf(t) == t \div TicksPerDay

Returned == { reply.body[k].doc : k \in 1..Len(reply.body) }

\* the request was answered with a list made for a day
AnsweredFor(op) == reply.op = op /\ reply.code = 200

Typed ==
  /\ reply.op \in { "GET", "GET property" }
  /\ reply.code = 200
  /\ \A k \in 1..Len(reply.body) : IsDefined(reply.body[k].type)

C20_TypeTag ==
  Typed =>
    \A k \in 1..Len(reply.body) :
       LET d == reply.body[k].doc
           type == reply.body[k].type[1]
           day == DayOf(reply.selectedDate.v)
       IN /\ type \in { "checkin", "checkout", "stay" }
          /\ type = "checkin" <=> DayOf(d.checkInDate) = day
          /\ type = "checkout" <=>
               DayOf(d.checkInDate) # day /\ DayOf(d.checkOutDate) = day

\* a booking that arrives and leaves on the queried day, tagged checkin, next
\* to one that leaves on it
C20_Witness ==
  /\ Typed
  /\ reply.op = "GET"
  /\ \E k \in 1..Len(reply.body) :
        /\ reply.body[k].type = Some("checkin")
        /\ DayOf(reply.body[k].doc.checkOutDate) = DayOf(reply.selectedDate.v)
  /\ \E k \in 1..Len(reply.body) : reply.body[k].type = Some("checkout")

(***************************************************************************)
(* The check-out-range queries (app/api/by-checkout-range/route.ts and the *)
(* GET of app/api/bookingsfordaterange/route.ts, the same code twice), and *)
(* the life of the bookings: updates and deletes with queries in between.  *)
(***************************************************************************)
CheckoutRoutes == { "GET by-checkout-range", "GET bookingsfordaterange" }

\* start and end: missing, no date, or an instant of the second day
RangeQueries ==
  [ start : { Undefined, Some(Num(TicksPerDay)) },
    end : { Undefined, Some(NaN), Some(Num(TicksPerDay)) } ]

\* the filter without the test of the status
InCheckoutRangeAnyStatus(d, startDate, endDate) ==
  d.checkOutDate >= startDate /\ d.checkOutDate <= endDate

\* the filter of Booking.find in the check-out-range queries
InCheckoutRange(d, startDate, endDate) ==
  /\ d.status # "cancel"
  /\ d.checkOutDate >= startDate
  /\ d.checkOutDate <= endDate

\* .sort({ checkOutDate: 1 }), bookings of one check-out in the order of the
\* ids
RECURSIVE SortByCheckOut(_)
SortByCheckOut(S) ==
  IF S = {} THEN <<>>
  ELSE LET first == CHOOSE d \in S : \A e \in S :
                      \/ d.checkOutDate < e.checkOutDate
                      \/ d.checkOutDate = e.checkOutDate /\ d.id <= e.id
       IN <<first>> \o SortByCheckOut(S \ {first})

\* GET of a check-out-range route
GetByCheckoutRangeWith(queries, failures) ==
  /\ \E route \in CheckoutRoutes, q \in queries, failure \in failures :
       IF failure = "connect"
         THEN reply' = FailedAnswer(route, q, NoNum, failure)
       ELSE IF ~IsDefined(q.start) \/ ~IsDefined(q.end)
         THEN reply' = Refused(route, q, "start and end are required")
       ELSE IF q.start[1] = NaN \/ q.end[1] = NaN \/ failure = "find"
         THEN reply' = FailedAnswer(route, q, NoNum, failure)
       ELSE LET startDate == StartOfDay(q.start[1].v)
                endDate == EndOfDay(q.end[1].v)
            IN reply' = GetAnswer(route, q, 200, NoNum,
                          AllPlain(SortByCheckOut(
                            { d \in store :
                                InCheckoutRange(d, startDate, endDate) })))
  /\ UNCHANGED <<store, nextId, reqs>>
  /\ UNCHANGED pageVars

GetByCheckoutRange == GetByCheckoutRangeWith(RangeQueries, { "none" })

\* the stays of the first booking: arrivals and departures at the first and
\* at the last instant of a day, before, on and after the second day
LifeStays ==
  { <<0, EndOfDay(0)>>,
    <<0, TicksPerDay>>,
    <<EndOfDay(0), EndOfDay(TicksPerDay)>>,
    <<TicksPerDay, TicksPerDay>>,
    <<TicksPerDay, 2 * TicksPerDay>>,
    <<EndOfDay(TicksPerDay), EndOfDay(2 * TicksPerDay)>>,
    <<2 * TicksPerDay, EndOfDay(2 * TicksPerDay)>> }

\* the collections the requests start from: one booking, or two, booked and
\* without a room
LifeStores ==
  LET first == { Doc(1, "R1", "booked", Undefined, "P1", p[1], p[2]) :
                   p \in LifeStays }
      second == Doc(2, "R2", "booked", Undefined, "P1", TicksPerDay,
                    EndOfDay(TicksPerDay))
  IN { {d} : d \in first } \cup { {d, second} : d \in first }

\* the queries about the second day among BookingsQueries: unassigned (with
\* and without date), or all of the day
LifeBookingsQueries ==
  { q \in BookingsQueries :
      /\ ~IsDefined(q.start) /\ ~IsDefined(q.end) /\ ~IsDefined(q.propertyId)
      /\ \/ q.date = Some(Num(TicksPerDay))
         \/ q.unassigned /\ ~IsDefined(q.date) }

LifePropertyQueries ==
  [ propertyId : { Undefined, Some("P1") }, date : { Some(Num(TicksPerDay)) } ]

InitLife ==
  /\ PageIdle
  /\ store \in LifeStores
  /\ nextId = 3
  /\ reply = [op |-> "none"]
  /\ reqs = <<>>

NextLife ==
  \/ Patch
  \/ Delete
  \/ GetByCheckoutRange
  \/ GetBookingsWith(LifeBookingsQueries, { "none" })
  \/ GetByPropertyWith(LifePropertyQueries, { "none" })

\* updates, deletes and queries, one request at a time
SpecLife == InitLife /\ [][NextLife]_vars

(***************************************************************************)
(* C21: the check-out-range queries return exactly the bookings whose      *)
(* status is not cancel and whose checkOutDate lies between the start of   *)
(* the start day and the end of the end day, both included, each booking   *)
(* once, in the order of non-decreasing checkOutDate; a booking that has   *)
(* been soft-deleted is not returned.                                      *)
(***************************************************************************)
RangeAnswered == reply.op \in CheckoutRoutes /\ reply.code = 200

UnassignedAnswered ==
  reply.op = "GET" /\ reply.code = 200 /\ reply.req.unassigned

UnassignedExact ==
  UnassignedAnswered =>
    Returned =
      { d \in store :
          /\ d.status # "cancel"
          /\ ~IsDefined(d.roomId)
          /\ DayOf(d.checkInDate) = DayOf(reply.selectedDate.v) }

C22_UnassignedQuery ==
  [][ /\ UnassignedExact'
      /\ \A d \in store, e \in store' :
           (e.id = d.id /\ IsDefined(d.roomId)) => IsDefined(e.roomId)
    ]_vars

\* a booking that arrives on the day has a room and is left out, another is
\* returned
C22_Witness ==
  /\ UnassignedAnswered
  /\ Len(reply.body) = 1
  /\ \E d \in store :
        /\ IsDefined(d.roomId)
        /\ d.status # "cancel"
        /\ DayOf(d.checkInDate) = DayOf(reply.selectedDate.v)

(***************************************************************************)
(* C24: a request that lacks a required parameter (start or end for the    *)
(* check-out-range queries, date for the unassigned query, propertyId for  *)
(* the query of a property, bookingId for update and delete) is answered   *)
(* 400 with a message, and the store is unchanged.                         *)
(***************************************************************************)
LacksParameter(r) ==
  \/ r.op \in CheckoutRoutes
       /\ (~IsDefined(r.req.start) \/ ~IsDefined(r.req.end))
  \/ r.op = "GET" /\ r.req.unassigned /\ ~IsDefined(r.req.date)
  \/ r.op = "GET property" /\ ~IsDefined(r.req.propertyId)
  \/ r.op \in { "PATCH", "DELETE" } /\ ~IsDefined(r.req.bookingId)

C26_CancelIsTerminal ==
  [][ \A d \in store, e \in store' :
        (e.id = d.id /\ d.status = "cancel") => e.status = "cancel"
    ]_vars

(***************************************************************************)
(* The income summary (app/api/income/route.ts).  The bookings carry the   *)
(* fields the summary reads; a month is DaysPerMonth days.                 *)
(***************************************************************************)
\* stored bookings the summary runs over
MaxIncomeDocs == 2

DaysPerMonth == 2

Platforms == { "Booking.com", "Agoda", "Airbnb", "Expedia", "Direct" }

PaymentMethods == { "online", "bank", "cash", "card" }

IncomeDoc(id, status, platform, paymentMethod, amount, paymentDate, property) ==
  [ id |-> id, status |-> status, platform |-> platform,
    paymentMethod |-> paymentMethod, amount |-> amount,
    paymentDate |-> paymentDate, propertyId |-> property ]

\* one booking paid on the second day for each platform and payment method,
\* and bookings that differ in status, amount, payment date and property
IncomeDocs ==
  LET platforms == <<"Booking.com", "Agoda", "Airbnb", "Expedia", "Direct">>
      methods == <<"online", "bank", "cash", "card">>
  IN { IncomeDoc(10 * p + m, "booked", platforms[p], methods[m],
                 Some(100 * p + 10 * m), Some(TicksPerDay), "P1") :
         p \in 1..5, m \in 1..4 }
       \cup
     { IncomeDoc(1, "cancel", "Booking.com", "online", Some(7),
                 Some(TicksPerDay), "P1"),
       IncomeDoc(2, "checked_in", "Agoda", "online", Undefined,
                 Some(TicksPerDay), "P1"),
       IncomeDoc(3, "booked", "Direct", "cash", Some(3), Undefined, "P1"),
       IncomeDoc(4, "booked", "Direct", "bank", Some(4), Some(EndOfDay(0)),
                 "P1"),
       IncomeDoc(5, "booked", "Airbnb", "online", Some(5),
                 Some(EndOfDay(TicksPerDay)), "P2"),
       IncomeDoc(6, "booked", "Expedia", "card", Some(6),
                 Some(DaysPerMonth * TicksPerDay), "P1") }

IncomeStores ==
  UNION { { { f[k] : k \in 1..n } : f \in [ 1..n -> IncomeDocs ] } :
            n \in 0..MaxIncomeDocs }

\* the parameters of GET /api/income; a date is the instant new Date(...)
\* makes of it, a month the number of the month or NaN
IncomeQueries ==
  { q \in [ type : { Undefined, Some("monthly"), Some("range") },
            date : { Undefined, Some(NaN), Some(Num(TicksPerDay)) },
            month : { Undefined, Some(NaN), Some(Num(0)) },
            from : { Undefined, Some(Num(EndOfDay(0))) },
            to : { Undefined, Some(Num(TicksPerDay)) },
            propertyId : { Undefined, Some("P1"), Some("zz") },
            platform : { Undefined, Some("Booking.com"), Some("Direct"),
                         Some("directBank"), Some("directCash") } ] :
      /\ q.type # Undefined => ~IsDefined(q.date)
      /\ q.type # Some("monthly") => ~IsDefined(q.month)
      /\ q.type # Some("range") => ~IsDefined(q.from) /\ ~IsDefined(q.to)
      /\ IsDefined(q.propertyId) => ~IsDefined(q.platform) }

\* start and end of the date filter, or nothing when there is no filter
Period(q) ==
  LET type == IF IsDefined(q.type) THEN q.type[1] ELSE "daily"
  IN IF type = "daily" /\ IsDefined(q.date)
       THEN IF q.date[1] = NaN THEN Some(<<NaN, NaN>>)
            ELSE Some(<<Num(StartOfDay(q.date[1].v)),
                        Num(EndOfDay(q.date[1].v))>>)
     ELSE IF type = "range" /\ IsDefined(q.from) /\ IsDefined(q.to)
       THEN Some(<<IF q.from[1] = NaN THEN NaN
                   ELSE Num(StartOfDay(q.from[1].v)),
                   IF q.to[1] = NaN THEN NaN ELSE Num(EndOfDay(q.to[1].v))>>)
     ELSE IF type = "monthly" /\ IsDefined(q.month)
       THEN IF q.month[1] = NaN THEN Some(<<NaN, NaN>>)
            ELSE Some(<<Num(q.month[1].v * DaysPerMonth * TicksPerDay),
                        Num((q.month[1].v + 1) * DaysPerMonth * TicksPerDay
                              - 1)>>)
     ELSE Undefined

\* the query built from the parameters
IncomeFilter(d, q, period) ==
  /\ d.status # "cancel"
  /\ IsDefined(q.propertyId) => d.propertyId = q.propertyId[1]
  /\ IsDefined(q.platform) =>
       IF q.platform[1] = "directBank"
         THEN d.platform = "Direct" /\ d.paymentMethod = "bank"
       ELSE IF q.platform[1] = "directCash"
         THEN d.platform = "Direct" /\ d.paymentMethod = "cash"
       ELSE d.platform = q.platform[1]
  /\ IsDefined(period) =>
       /\ IsDefined(d.paymentDate)
       /\ d.paymentDate[1] >= period[1][1].v
       /\ d.paymentDate[1] <= period[1][2].v

\* .sort({ paymentDate: -1, createdAt: -1 }): a booking without payment date
\* comes last, the ids follow the creation
RECURSIVE SortByPaymentDate(_)
SortByPaymentDate(S) ==
  IF S = {} THEN <<>>
  ELSE LET key(d) == IF IsDefined(d.paymentDate) THEN d.paymentDate[1] ELSE -1
           first == CHOOSE d \in S : \A e \in S :
                      \/ key(d) > key(e)
                      \/ key(d) = key(e) /\ d.id >= e.id
       IN <<first>> \o SortByPaymentDate(S \ {first})

ZeroTotals ==
  [ booking |-> 0, agoda |-> 0, airbnb |-> 0, expedia |-> 0, directBank |-> 0,
    directCash |-> 0, netTotal |-> 0 ]

\* b.amount || 0
AmountOf(b) == IF IsDefined(b.amount) THEN b.amount[1] ELSE 0

\* the step of the reduction with cash counted as bank
AddToTotalsCashAsBank(totals, b) ==
  LET amount == AmountOf(b)
      net == [totals EXCEPT !.netTotal = @ + amount]
  IN IF b.platform = "Booking.com" THEN [net EXCEPT !.booking = @ + amount]
     ELSE IF b.platform = "Agoda" THEN [net EXCEPT !.agoda = @ + amount]
     ELSE IF b.platform = "Airbnb" THEN [net EXCEPT !.airbnb = @ + amount]
     ELSE IF b.platform = "Expedia" THEN [net EXCEPT !.expedia = @ + amount]
     ELSE IF b.platform = "Direct" /\ b.paymentMethod \in { "bank", "cash" }
       THEN [net EXCEPT !.directBank = @ + amount]
     ELSE net

\* one step of the reduction: the body of records.map
AddToTotals(totals, b) ==
  LET amount == AmountOf(b)
      net == [totals EXCEPT !.netTotal = @ + amount]
  IN IF b.platform = "Booking.com" THEN [net EXCEPT !.booking = @ + amount]
     ELSE IF b.platform = "Agoda" THEN [net EXCEPT !.agoda = @ + amount]
     ELSE IF b.platform = "Airbnb" THEN [net EXCEPT !.airbnb = @ + amount]
     ELSE IF b.platform = "Expedia" THEN [net EXCEPT !.expedia = @ + amount]
     ELSE IF b.platform = "Direct" /\ b.paymentMethod = "bank"
       THEN [net EXCEPT !.directBank = @ + amount]
     ELSE IF b.platform = "Direct" /\ b.paymentMethod = "cash"
       THEN [net EXCEPT !.directCash = @ + amount]
     ELSE net

RECURSIVE TotalsOf(_, _, _)
TotalsOf(records, k, totals) ==
  IF k > Len(records) THEN totals
  ELSE TotalsOf(records, k + 1, AddToTotals(totals, records[k]))

IncomeAnswer(q, code, totals, records, failure) ==
  [ op |-> "GET income", req |-> q, code |-> code, totals |-> totals,
    records |-> records, failure |-> failure ]

\* GET /api/income
GetIncomeWith(queries, failures) ==
  /\ \E q \in queries, failure \in failures :
       LET period == Period(q)
           badDate == IsDefined(period) /\ NaN \in { period[1][1], period[1][2] }
           badProperty ==
             IsDefined(q.propertyId) /\ ~IsPropertyObjectId(q.propertyId[1])
           records ==
             SortByPaymentDate({ d \in store : IncomeFilter(d, q, period) })
       IN IF failure # "none" \/ badDate \/ badProperty
            THEN reply' = IncomeAnswer(q, 500, ZeroTotals, <<>>, failure)
            ELSE reply' =
                   IncomeAnswer(q, 200, TotalsOf(records, 1, ZeroTotals),
                                [ k \in 1..Len(records) |->
                                    [records[k] EXCEPT
                                       !.amount = Some(AmountOf(records[k]))] ],
                                failure)
  /\ UNCHANGED <<store, nextId, reqs>>
  /\ UNCHANGED pageVars

GetIncome == GetIncomeWith(IncomeQueries, { "none" })

InitIncome ==
  /\ PageIdle
  /\ store \in IncomeStores
  /\ nextId = 1
  /\ reply = [op |-> "none"]
  /\ reqs = <<>>

NextIncome == Unanswered /\ GetIncome

\* one income summary over a collection
SpecIncome == InitIncome /\ [][NextIncome]_vars

(***************************************************************************)
(* C23: the income summary is one pass over the non-cancelled bookings     *)
(* that pass the filters: the collected amount of each (0 when absent) is  *)
(* added to netTotal and to the bucket of its platform, for Direct to      *)
(* directBank when paid by bank and to directCash when paid in cash; no    *)
(* cancelled booking contributes to any total.                             *)
(***************************************************************************)
IncomeAnswered == reply.op = "GET income" /\ reply.code = 200

\* the sum of the amounts of the records of a platform (and of a payment
\* method, "" for any of them)
RECURSIVE SumOf(_, _, _, _)
SumOf(records, k, platform, paymentMethod) ==
  IF k > Len(records) THEN 0
  ELSE SumOf(records, k + 1, platform, paymentMethod)
         + ( IF /\ platform \in { "", records[k].platform }
                /\ paymentMethod \in { "", records[k].paymentMethod }
               THEN IF IsDefined(records[k].amount)
                      THEN records[k].amount[1] ELSE 0
               ELSE 0 )

\* the stored bookings the records were made of
Contributing == { d \in store : \E k \in 1..Len(reply.records) :
                                   reply.records[k].id = d.id }

C23_IncomeReduction ==
  IncomeAnswered =>
    LET rs == SortByPaymentDate(Contributing)
        q == reply.req
    IN /\ Len(reply.records) = Cardinality(Contributing)
       /\ \A d \in Contributing : d.status # "cancel"
       /\ Contributing =
            { d \in store :
                /\ d.status # "cancel"
                /\ IsDefined(q.propertyId) => d.propertyId = q.propertyId[1]
                /\ q.platform \in { Some("Booking.com"), Some("Direct") }
                     => d.platform = q.platform[1]
                /\ q.platform = Some("directBank")
                     => d.platform = "Direct" /\ d.paymentMethod = "bank"
                /\ q.platform = Some("directCash")
                     => d.platform = "Direct" /\ d.paymentMethod = "cash"
                /\ IsDefined(Period(q)) =>
                     /\ IsDefined(d.paymentDate)
                     /\ d.paymentDate[1] >= Period(q)[1][1].v
                     /\ d.paymentDate[1] <= Period(q)[1][2].v }
       /\ reply.totals.netTotal = SumOf(rs, 1, "", "")
       /\ reply.totals.booking = SumOf(rs, 1, "Booking.com", "")
       /\ reply.totals.agoda = SumOf(rs, 1, "Agoda", "")
       /\ reply.totals.airbnb = SumOf(rs, 1, "Airbnb", "")
       /\ reply.totals.expedia = SumOf(rs, 1, "Expedia", "")
       /\ reply.totals.directBank = SumOf(rs, 1, "Direct", "bank")
       /\ reply.totals.directCash = SumOf(rs, 1, "Direct", "cash")

\* a Direct booking paid in cash is summed, a stored cancelled booking is not
C23_Witness ==
  /\ IncomeAnswered
  /\ reply.totals.directCash > 0
  /\ reply.totals.netTotal = reply.totals.directCash
  /\ \E d \in store : d.status = "cancel"

(***************************************************************************)
(* C28: in every income summary netTotal is the sum of the six buckets     *)
(* booking, agoda, airbnb, expedia, directBank and directCash.             *)
(***************************************************************************)
C28_NetTotalIsSumOfBuckets ==
  IncomeAnswered =>
    reply.totals.netTotal =
      reply.totals.booking + reply.totals.agoda + reply.totals.airbnb
        + reply.totals.expedia + reply.totals.directBank
        + reply.totals.directCash

(***************************************************************************)
(* The query endpoints with a persistence layer that can fail: connectDB   *)
(* or the find of the handler throws.                                      *)
(***************************************************************************)
\* the bookings of LifeStores with the fields the income summary reads
FailStores ==
  { { d @@ [ platform |-> "Direct", paymentMethod |-> "cash",
             amount |-> Some(100 * d.id), paymentDate |-> Some(d.checkInDate) ] :
        d \in S } : S \in LifeStores }

InitFail ==
  /\ PageIdle
  /\ store \in FailStores
  /\ nextId = 3
  /\ reply = [op |-> "none"]
  /\ reqs = <<>>

NextFail ==
  \/ Unanswered /\ GetByPropertyWith(LifePropertyQueries, Failures)
  \/ Unanswered /\ GetBookingsWith(LifeBookingsQueries, Failures)
  \/ Unanswered /\ GetByCheckoutRangeWith(RangeQueries, Failures)
  \/ Unanswered /\ GetIncomeWith(IncomeQueries, Failures)

\* one query against a collection that may fail
SpecFail == InitFail /\ [][NextFail]_vars

(***************************************************************************)
(* C25: when the persistence layer fails during a query endpoint, the      *)
(* failure is caught in the handler: the response has status 500 and the   *)
(* empty result (an empty list; for the income summary zeroed totals and   *)
(* an empty record list), never a partial result.                          *)
(***************************************************************************)
QueryFailed == "failure" \in DOMAIN reply /\ reply.failure # "none"

C25_FailureGivesEmpty500 ==
  QueryFailed =>
    /\ reply.code = 500
    /\ IF reply.op = "GET income"
         THEN /\ reply.records = <<>>
              /\ \A bucket \in DOMAIN reply.totals : reply.totals[bucket] = 0
         ELSE reply.body = <<>>

\* the find fails over a collection the income summary would have summed
C25_Witness ==
  /\ QueryFailed
  /\ reply.op = "GET income"
  /\ reply.failure = "find"
  /\ \E d \in store : IncomeFilter(d, reply.req, Period(reply.req))

(***************************************************************************)
(* C27: in one reconciliation pass each stored record is counted at most   *)
(* once: it is in the matched set of at most one ledger row, so the sum of *)
(* dbTotal over all groups equals the sum of the own amounts of the        *)
(* Booking.com records of the window, also when several ledger rows carry  *)
(* the same reference or parts of the same stored reference.               *)
(***************************************************************************)
RECURSIVE SumDbOfGroups(_)
SumDbOfGroups(labels) ==
  IF labels = {} THEN 0
  ELSE LET l == CHOOSE x \in labels : TRUE
       IN grouped[l].dbTotal + SumDbOfGroups(labels \ {l})

C27_EachRecordCountedOnce ==
  /\ \A k \in 1..Len(Db) :
        Cardinality({ j \in 1..Len(rows) : AppearsIn(Db[k], rows[j]) }) <= 1
  /\ SumDbOfGroups(DOMAIN grouped) = SumOwn(Db)

(***************************************************************************)
(* The bulk import page (BulkBookingCSVPage).  rows are the imported rows, *)
(* parsed is the sheet of the chosen file, data the bookings of the        *)
(* window as the page holds them, enabled that both dates are set, and     *)
(* reqs the save requests under way, served by POST /api/bookings.         *)
(***************************************************************************)
ImportProperties == { "p401", "p302" }

\* the sheets: rows with the columns Status, Voucher and Room
ImportFiles ==
  { << [Status |-> "Active", Voucher |-> "R1", Room |-> "Deluxe"] >>,
    << [Status |-> "Active", Voucher |-> "R1", Room |-> "Standard"],
       [Status |-> "Active", Voucher |-> "R2", Room |-> "Deluxe"] >>,
    << [Status |-> "Cancelled", Voucher |-> "R1", Room |-> "Deluxe"],
       [Status |-> "Active", Voucher |-> "R2", Room |-> "Standard"] >> }

\* a slot without request
NoSave ==
  [ pc |-> "idle", row |-> 0, body |-> <<>>, reservationId |-> "", code |-> 0 ]

\* the body saveBooking posts for a row
ImportBody(r) ==
  [ reservationId |-> Some(r.reservationId), status |-> Some("booked"),
    guestName |-> Some("guest"), propertyId |-> r.propertyId,
    checkInDate |-> 0, checkOutDate |-> TicksPerDay ]

\* the collection the import meets: empty, or the first voucher stored
\* before, cancelled or not
InitImport ==
  /\ response = <<>> /\ csvRows = <<>> /\ grouped = <<>>
  /\ parsed \in ImportFiles
  /\ rows = <<>>
  /\ data = Undefined
  /\ enabled = FALSE
  /\ store \in RaceStores
                 \cup { { Doc(1, "R1", "booked", Undefined, "p401", 0,
                              TicksPerDay) } }
  /\ nextId = 2
  /\ reply = [op |-> "none"]
  /\ reqs = [ c \in Clients |-> NoSave ]

\* handleCSVUpload: the Active rows of the sheet, pending and without
\* property; the row ids are the positions (one file is imported)
HandleCSVUpload ==
  /\ rows = <<>>
  /\ LET active == SelectSeq(parsed, LAMBDA r : r.Status = "Active")
     IN rows' = [ k \in 1..Len(active) |->
                    [ rowId |-> k, reservationId |-> active[k].Voucher,
                      unitType |-> active[k].Room, propertyId |-> "",
                      status |-> "pending", existingBookingId |-> Undefined ] ]
  /\ UNCHANGED <<response, parsed, data, csvRows, grouped, enabled>>
  /\ UNCHANGED apiVars

\* setStart and setEnd: both dates are set, the window holds every stay
SetWindow ==
  /\ ~enabled
  /\ enabled' = TRUE
  /\ UNCHANGED <<response, parsed, data, csvRows, rows, grouped>>
  /\ UNCHANGED apiVars

\* the bookings query resolves (first fetch, or refetch after
\* invalidateQueries) with the answer of GET /api/bookingsfordaterange
BookingsResolve ==
  /\ enabled
  /\ data' = Some(AllPlain(SortByCheckOut(
                { d \in store : InCheckoutRange(d, 0, EndOfDay(TicksPerDay)) })))
  /\ UNCHANGED <<response, parsed, csvRows, rows, grouped, enabled>>
  /\ UNCHANGED apiVars

\* checkExistingRecords; the button is disabled until the bookings are there
CheckExistingRecords ==
  /\ enabled /\ IsDefined(data)
  /\ LET bookings == data[1]
         match(r) == { k \in 1..Len(bookings) :
                         bookings[k].doc.reservationId = r.reservationId }
     IN rows' = [ k \in 1..Len(rows) |->
                    IF match(rows[k]) = {} THEN rows[k]
                    ELSE [rows[k] EXCEPT
                            !.status = "exists",
                            !.existingBookingId =
                               Some(bookings[CHOOSE j \in match(rows[k]) :
                                      \A i \in match(rows[k]) : j >= i].doc.id)] ]
  /\ UNCHANGED <<response, parsed, data, csvRows, grouped, enabled>>
  /\ UNCHANGED apiVars

\* the select of a pending row
SelectProperty ==
  /\ \E k \in 1..Len(rows), p \in ImportProperties \cup { "" } :
       /\ rows[k].status = "pending"
       /\ rows' = [rows EXCEPT ![k].propertyId = p]
  /\ UNCHANGED <<response, parsed, data, csvRows, grouped, enabled>>
  /\ UNCHANGED apiVars

\* applyPropertyToAll with the property chosen in the select above the
\* button ("" when none is chosen)
ApplyPropertyToAll ==
  /\ \E bulkProperty \in ImportProperties \cup { "" } :
       IF bulkProperty = "" THEN rows' = rows
       ELSE rows' = [ k \in 1..Len(rows) |->
                        IF rows[k].status = "pending"
                          THEN [rows[k] EXCEPT !.propertyId = bulkProperty]
                          ELSE rows[k] ]
  /\ UNCHANGED <<response, parsed, data, csvRows, grouped, enabled>>
  /\ UNCHANGED apiVars

\* autoAssignByRoom; the properties may not be loaded yet
AutoAssignByRoom ==
  /\ \E loaded \in BOOLEAN :
       IF ~loaded THEN rows' = rows
       ELSE rows' = [ k \in 1..Len(rows) |->
                        IF rows[k].status # "pending" THEN rows[k]
                        ELSE IF rows[k].unitType = "Deluxe"
                          THEN [rows[k] EXCEPT !.propertyId = "p401"]
                          ELSE [rows[k] EXCEPT !.propertyId = "p302"] ]
  /\ UNCHANGED <<response, parsed, data, csvRows, grouped, enabled>>
  /\ UNCHANGED apiVars

\* the Save button of a row: rendered while the row is pending, disabled
\* without property; saveBooking.mutate(r) sends the request
SaveClick ==
  /\ \E k \in 1..Len(rows) :
       /\ rows[k].status = "pending"
       /\ rows[k].propertyId # ""
       /\ \E c \in Clients :
            /\ reqs[c].pc = "idle"
            /\ \A b \in Clients : b < c => reqs[b].pc # "idle"
            /\ reqs' = [reqs EXCEPT
                 ![c] = [ pc |-> "start", row |-> k, body |-> ImportBody(rows[k]),
                          reservationId |-> "", code |-> 0 ]]
  /\ UNCHANGED <<store, nextId, reply>>
  /\ UNCHANGED pageVars

\* onSuccess and onError of saveBooking: the response of a request arrives
SaveSettled ==
  /\ \E c \in Clients :
       /\ reqs[c].pc = "done"
       /\ rows' = [ k \in 1..Len(rows) |->
                      IF rows[k].rowId = reqs[c].row
                        THEN [rows[k] EXCEPT
                                !.status = IF reqs[c].code = 200 THEN "saved"
                                           ELSE "error"]
                        ELSE rows[k] ]
       /\ reqs' = [reqs EXCEPT ![c] = NoSave]
  /\ UNCHANGED <<response, parsed, data, csvRows, grouped, enabled>>
  /\ UNCHANGED <<store, nextId, reply>>

NextImport ==
  \/ HandleCSVUpload
  \/ SetWindow
  \/ BookingsResolve
  \/ CheckExistingRecords
  \/ SelectProperty
  \/ ApplyPropertyToAll
  \/ AutoAssignByRoom
  \/ SaveClick
  \/ \E c \in Clients : PostCheck(c)
  \/ \E c \in Clients : PostWrite(c)
  \/ SaveSettled

SpecImport == InitImport /\ [][NextImport]_vars

(***************************************************************************)
(* C29: in the bulk import the status of a row only moves from pending to  *)
(* saved, error or exists, and saved is terminal: no later event (Check    *)
(* Existing after the refetch, Apply to all, Auto assign by room, the      *)
(* completion of another save request for the row) changes the status or   *)
(* the property of a saved row.                                            *)
(***************************************************************************)
C29_SavedIsTerminal ==
  [][ \A k \in 1..Len(rows) :
        /\ rows'[k].status # rows[k].status => rows[k].status = "pending"
        /\ rows[k].status = "saved" =>
             /\ rows'[k].status = "saved"
             /\ rows'[k].propertyId = rows[k].propertyId ]_vars

(***************************************************************************)
(* C30: in the bulk import a save request is issued for a row only while   *)
(* the row is pending with a property chosen, and for every interleaving   *)
(* of repeated save clicks and responses at most one booking is stored per *)
(* row and the row whose booking was stored does not end with status       *)
(* error.                                                                  *)
(***************************************************************************)
\* the bookings the import has stored for a row
StoredFor(r) == { d \in store : d.id >= 2 /\ d.reservationId = r.reservationId }

\* no request of the row is under way
Settled(r) == \A c \in Clients : reqs[c].row # r.rowId

\* at most one booking per row, and no row left in error with its booking
\* stored
OneBookingPerRow ==
  \A k \in 1..Len(rows) :
    /\ Cardinality(StoredFor(rows[k])) <= 1
    /\ Settled(rows[k]) /\ StoredFor(rows[k]) # {} => rows[k].status # "error"

C30_OneBookingPerRowSaved ==
  [][ /\ \A c \in Clients :
           reqs[c].pc = "idle" /\ reqs'[c].pc = "start" =>
             /\ rows[reqs'[c].row].status = "pending"
             /\ rows[reqs'[c].row].propertyId # ""
      /\ OneBookingPerRow' ]_vars

====
